---- MODULE Spec2Model ----
(***************************************************************************)
(* A model of chessify-rs: the Square / File / Rank coordinate system,     *)
(* the CastlingRights mask, and the FEN codec of Board / BoardBuilder.     *)
(*                                                                         *)
(* Text is a sequence of one-character strings.  Every character used is   *)
(* ASCII, so str::len() (a byte count) equals the number of characters.    *)
(* A Bitboard (u64) is the set of its set bit positions, a subset of       *)
(* 0..63; `|` is set union.  Option<T> is a set with at most one element.  *)
(* HashMap<usize, V> is a function whose DOMAIN is the set of keys.        *)
(***************************************************************************)
EXTENDS Integers, Sequences, FiniteSets, TLC

VARIABLES
    sq_pc,      \* position of the Square scenario: "byte", "square", "text", "parsed", "off"
    sq_byte,    \* Option<u8>: the u8 handed to Square::new
    sq_square,  \* Option<Square>: the square built by Square::new
    sq_text,    \* the text handed to Square::try_from
    sq_res,     \* the Result of Square::try_from
    cr_pc,      \* position of the CastlingRights scenario: "text", "mask", "queried", "failed", "off"
    cr_text,    \* Option<text>: the text handed to CastlingRights::try_from
    cr_res,     \* the Result of CastlingRights::try_from
    cr_mask,    \* Option<u8>: the CastlingRights value queried
    cr_status,  \* the Result of for_color for each Color
    co_pc,      \* position of the Color scenario: "text", "parsed", "off"
    co_text,    \* the text handed to Color::try_from_str
    co_res,     \* the Result of Color::try_from_str
    fen_pc,     \* position of the FEN scenario: "text", "start", "parsed", "rejected",
                \* "built", "unbuilt", "aborted", "shown", "off"
    via,        \* the entry point of the FEN scenario: "fen", "builder_new", "default",
                \* "standard", "new", "empty", "off"
    fen,        \* the text handed to BoardBuilder::try_from_fen
    builder,    \* the Result<BoardBuilder> of try_from_fen
    board,      \* the Result<Board> of try_build
    shown       \* the text written by Display for Board

vars == <<sq_pc, sq_byte, sq_square, sq_text, sq_res,
          cr_pc, cr_text, cr_res, cr_mask, cr_status,
          co_pc, co_text, co_res,
          fen_pc, via, fen, builder, board, shown>>

sq_vars == <<sq_pc, sq_byte, sq_square, sq_text, sq_res>>
cr_vars == <<cr_pc, cr_text, cr_res, cr_mask, cr_status>>
co_vars == <<co_pc, co_text, co_res>>
fen_vars == <<fen_pc, via, fen, builder, board, shown>>

----------------------------------------------------------------------------
(* Bounds of the explored inputs.                                          *)

MaxSquareTextLen == 3
MaxRightsLen == 4
MaxPlacementLen == 3
MaxColorTextLen == 3

\* The largest u8: Square(pub u8), CastlingRights(pub u8).
U8Max == 255

----------------------------------------------------------------------------
(* Characters and generic helpers.                                         *)

UpperLetters == <<"A","B","C","D","E","F","G","H","I","J","K","L","M",
                  "N","O","P","Q","R","S","T","U","V","W","X","Y","Z">>
LowerLetters == <<"a","b","c","d","e","f","g","h","i","j","k","l","m",
                  "n","o","p","q","r","s","t","u","v","w","x","y","z">>
DigitChars == <<"0","1","2","3","4","5","6","7","8","9">>

\* char::to_lowercase on the ASCII characters of the model.
to_lowercase(c) ==
    IF \E i \in 1..26 : UpperLetters[i] = c
    THEN LowerLetters[CHOOSE i \in 1..26 : UpperLetters[i] = c]
    ELSE c

\* str::to_lowercase
str_to_lowercase(s) == [i \in 1..Len(s) |-> to_lowercase(s[i])]

IsDigit(c) == \E i \in 1..10 : DigitChars[i] = c

\* The numeric value of a digit character ('0' is byte 48).
DigitValue(c) == (CHOOSE i \in 1..10 : DigitChars[i] = c) - 1

\* `c as usize` for a digit character.
CharCode(c) == 48 + DigitValue(c)

\* Sequences over alphabet A of length at most n.
RECURSIVE SeqsUpTo(_, _)
SeqsUpTo(A, n) ==
    IF n = 0 THEN {<<>>}
    ELSE LET shorter == SeqsUpTo(A, n - 1)
         IN  shorter \cup {Append(s, a) : s \in {t \in shorter : Len(t) = n - 1}, a \in A}

\* Result<T, E>: ok, the value (Some), the error kind and the text it carries.
Ok(v) == [ok |-> TRUE, val |-> {v}, err |-> "", text |-> <<>>]
Err(kind, t) == [ok |-> FALSE, val |-> {}, err |-> kind, text |-> t]
Unwrap(r) == CHOOSE v \in r.val : TRUE

\* u8 `&` and `|`, bit by bit.
RECURSIVE BitAnd(_, _, _)
BitAnd(a, b, w) ==
    IF w = 0 THEN 0
    ELSE (IF a % 2 = 1 /\ b % 2 = 1 THEN 1 ELSE 0) + 2 * BitAnd(a \div 2, b \div 2, w - 1)

RECURSIVE BitOr(_, _, _)
BitOr(a, b, w) ==
    IF w = 0 THEN 0
    ELSE (IF a % 2 = 1 \/ b % 2 = 1 THEN 1 ELSE 0) + 2 * BitOr(a \div 2, b \div 2, w - 1)

\* impl Display for usize / u8: the decimal digits of n.
RECURSIVE ToDecimal(_)
ToDecimal(n) ==
    IF n < 10 THEN <<DigitChars[n + 1]>>
    ELSE Append(ToDecimal(n \div 10), DigitChars[(n % 10) + 1])

RECURSIVE Shl(_, _)
Shl(a, k) == IF k = 0 THEN a ELSE Shl(2 * a, k - 1)

RECURSIVE Shr(_, _)
Shr(a, k) == IF k = 0 THEN a ELSE Shr(a \div 2, k - 1)

----------------------------------------------------------------------------
(* square.rs                                                               *)

\* impl TryFrom<char> for File
File_try_from(c) ==
    CASE c = "a" -> Ok(0)
      [] c = "b" -> Ok(1)
      [] c = "c" -> Ok(2)
      [] c = "d" -> Ok(3)
      [] c = "e" -> Ok(4)
      [] c = "f" -> Ok(5)
      [] c = "g" -> Ok(6)
      [] c = "h" -> Ok(7)
      [] OTHER -> Err("UnknownSquare", <<c>>)

\* impl TryFrom<char> for Rank
Rank_try_from(c) ==
    CASE c = "1" -> Ok(7)
      [] c = "2" -> Ok(6)
      [] c = "3" -> Ok(5)
      [] c = "4" -> Ok(4)
      [] c = "5" -> Ok(3)
      [] c = "6" -> Ok(2)
      [] c = "7" -> Ok(1)
      [] c = "8" -> Ok(0)
      [] OTHER -> Err("UnknownSquare", <<c>>)

\* impl fmt::Display for File; only 0..7 can be written.
File_to_string(f) == <<LowerLetters[f + 1]>>

\* impl fmt::Display for Rank
Rank_to_string(r) == <<DigitChars[(1 + r) + 1]>>

\* Square::new
Square_new(b) == BitAnd(b, 63, 8)

\* Square::from_index: `i as u8` keeps the low 8 bits.
Square_from_index(i) == BitAnd(i % 256, 63, 8)

\* Square::file_as_u8, rank_as_u8, file (its .0), rank (its .0), index
file_as_u8(s) == s % 8
rank_as_u8(s) == 7 - (s \div 8)
file(s) == s % 8

\* rank with the row taken for the rank: counts from the 8th rank down.
rank_row(s) == s \div 8

rank(s) == 7 - (s \div 8)
index(s) == s

\* Square::try_from without the lowercasing of the file letter.
Square_try_from_cased(s) ==
    IF Len(s) < 2 THEN Err("UnknownSquare", s)
    ELSE LET f == File_try_from(s[1])
             r == Rank_try_from(s[2])
         IN  IF ~f.ok THEN f
             ELSE IF ~r.ok THEN r
             ELSE Ok(Unwrap(r) * 8 + Unwrap(f))

\* impl TryFrom<&str> for Square
Square_try_from(s) ==
    IF Len(s) < 2 THEN Err("UnknownSquare", s)
    ELSE LET f == File_try_from(str_to_lowercase(s)[1])
             r == Rank_try_from(s[2])
         IN  IF ~f.ok THEN f
             ELSE IF ~r.ok THEN r
             ELSE Ok(Unwrap(r) * 8 + Unwrap(f))

\* impl fmt::Display for Square
Square_to_string(s) == File_to_string(file(s)) \o Rank_to_string(rank(s))

----------------------------------------------------------------------------
(* color.rs, piece.rs                                                      *)

Colors == {"White", "Black"}
Pieces == {"Pawn", "Knight", "Bishop", "Rook", "Queen", "King"}

NUM_COLORS == 2
NUM_PIECES == 6

\* Color::as_index
Color_as_index(c) == IF c = "White" THEN 0 ELSE 1

\* Piece::as_index
Piece_as_index(p) ==
    CASE p = "Pawn" -> 0
      [] p = "Knight" -> 1
      [] p = "Bishop" -> 2
      [] p = "Rook" -> 3
      [] p = "Queen" -> 4
      [] p = "King" -> 5

\* Color::try_from_str comparing the whole text with the one-letter names.
Color_try_from_whole(s) ==
    CASE s \in {<<"w">>, <<"W">>} -> Ok("White")
      [] s \in {<<"b">>, <<"B">>} -> Ok("Black")
      [] OTHER -> Err("UnknownColor", s)

\* Color::try_from_str
Color_try_from_str(s) ==
    IF Len(s) = 0 THEN Err("UnknownColor", s)
    ELSE CASE s[1] \in {"w", "W"} -> Ok("White")
           [] s[1] \in {"b", "B"} -> Ok("Black")
           [] OTHER -> Err("UnknownColor", s)

\* impl fmt::Display for Color
Color_to_string(c) == IF c = "White" THEN <<"W">> ELSE <<"B">>

\* Piece::to_string without the lowercasing for Black.
Piece_to_string_upper(p, color) ==
    CASE p = "Pawn" -> <<"P">>
      [] p = "Knight" -> <<"N">>
      [] p = "Bishop" -> <<"B">>
      [] p = "Rook" -> <<"R">>
      [] p = "Queen" -> <<"Q">>
      [] p = "King" -> <<"K">>

\* Piece::to_string
Piece_to_string(p, color) ==
    LET s == CASE p = "Pawn" -> <<"P">>
               [] p = "Knight" -> <<"N">>
               [] p = "Bishop" -> <<"B">>
               [] p = "Rook" -> <<"R">>
               [] p = "Queen" -> <<"Q">>
               [] p = "King" -> <<"K">>
    IN  IF color = "White" THEN s ELSE str_to_lowercase(s)

----------------------------------------------------------------------------
(* castling_rights.rs                                                      *)

\* try_from_u8 by the enum's own discriminants (Kingside = 1, Queenside = 2).
CastlingStatus_cast_u8(b) ==
    CASE b = 0 -> Ok("NotAvailable")
      [] b = 1 -> Ok("Kingside")
      [] b = 2 -> Ok("Queenside")
      [] b = 3 -> Ok("Both")
      [] OTHER -> Err("UnknownCastlingRights", ToDecimal(b))

\* CastlingStatus::try_from_u8
CastlingStatus_try_from_u8(b) ==
    CASE b = 0 -> Ok("NotAvailable")
      [] b = 1 -> Ok("Queenside")
      [] b = 2 -> Ok("Kingside")
      [] b = 3 -> Ok("Both")
      [] OTHER -> Err("UnknownCastlingRights", ToDecimal(b))

\* CastlingStatus::from_u8: unwrap, so a result that is not ok is a panic.
CastlingStatus_from_u8(b) == CastlingStatus_try_from_u8(b)

\* CastlingRights::for_color
for_color(m, c) ==
    IF c = "White" THEN CastlingStatus_from_u8(Shr(BitAnd(m, 12, 8), 2))
    ELSE CastlingStatus_from_u8(BitAnd(m, 3, 8))

\* The loop body adding the letter's bit instead of or-ing it.
CastlingBit_add(b, c) ==
    CASE c = "K" -> (b + Shl(1, 3)) % 256
      [] c = "Q" -> (b + Shl(1, 2)) % 256
      [] c = "k" -> (b + Shl(1, 1)) % 256
      [] c = "q" -> (b + Shl(1, 0)) % 256
      [] OTHER -> -1

\* One iteration of the loop of CastlingRights::try_from: the mask after c,
\* or -1 when c is not a rights letter.
CastlingBit(b, c) ==
    CASE c = "K" -> BitOr(b, Shl(1, 3), 8)
      [] c = "Q" -> BitOr(b, Shl(1, 2), 8)
      [] c = "k" -> BitOr(b, Shl(1, 1), 8)
      [] c = "q" -> BitOr(b, Shl(1, 0), 8)
      [] OTHER -> -1

RECURSIVE CastlingScan(_, _, _)
CastlingScan(s, i, b) ==
    IF i > Len(s) THEN Ok(b)
    ELSE IF CastlingBit(b, s[i]) = -1 THEN Err("InvalidFen", s)
    ELSE CastlingScan(s, i + 1, CastlingBit(b, s[i]))

\* impl TryFrom<&str> for CastlingRights
CastlingRights_try_from(s) == CastlingScan(s, 1, 0)

NO_CASTLING_RIGHTS == 0
FULL_CASTLING_RIGHTS == 15

----------------------------------------------------------------------------
(* The Square scenario: a byte is made a Square by Square::new, written by *)
(* Display and read back by Square::try_from; or a text is read directly.  *)

NoResult == Err("", <<>>)

SquareChars == {"a","b","c","d","e","f","g","h","A","B","C","D","E","F","G","H",
                "i","q","x","0","1","2","3","4","5","6","7","8","9","-"}
SquareSmallChars == {"a","H","e","4","1","8","9","x"}
SquareTexts == SeqsUpTo(SquareChars, 2) \cup SeqsUpTo(SquareSmallChars, MaxSquareTextLen)

SquareInit ==
    /\ sq_res = NoResult
    /\ sq_square = {}
    /\ \/ /\ sq_pc = "byte"
          /\ sq_byte \in {{b} : b \in 0..U8Max}
          /\ sq_text = <<>>
       \/ /\ sq_pc = "text"
          /\ sq_byte = {}
          /\ sq_text \in SquareTexts

SquareOff ==
    /\ sq_pc = "off" /\ sq_byte = {} /\ sq_square = {} /\ sq_text = <<>> /\ sq_res = NoResult

SquareNew ==
    /\ sq_pc = "byte"
    /\ sq_square' = {Square_new(b) : b \in sq_byte}
    /\ sq_pc' = "square"
    /\ UNCHANGED <<sq_byte, sq_text, sq_res, cr_vars, co_vars, fen_vars>>

SquareToString ==
    /\ sq_pc = "square"
    /\ sq_text' = Square_to_string(CHOOSE q \in sq_square : TRUE)
    /\ sq_pc' = "text"
    /\ UNCHANGED <<sq_byte, sq_square, sq_res, cr_vars, co_vars, fen_vars>>

SquareTryFrom ==
    /\ sq_pc = "text"
    /\ sq_res' = Square_try_from(sq_text)
    /\ sq_pc' = "parsed"
    /\ UNCHANGED <<sq_byte, sq_square, sq_text, cr_vars, co_vars, fen_vars>>

----------------------------------------------------------------------------
(* The CastlingRights scenario: a text is read by CastlingRights::try_from *)
(* and the mask is queried by for_color; or any u8 mask is queried.        *)

RightsChars == {"K","Q","k","q","-","b"}
RightsTexts == SeqsUpTo(RightsChars, MaxRightsLen)

NoStatus == [c \in Colors |-> NoResult]

CastlingInit ==
    /\ cr_res = NoResult
    /\ cr_status = NoStatus
    /\ \/ /\ cr_pc = "text"
          /\ cr_text \in {{t} : t \in RightsTexts}
          /\ cr_mask = {}
       \/ /\ cr_pc = "mask"
          /\ cr_text = {}
          /\ cr_mask \in {{b} : b \in 0..U8Max}

CastlingOff ==
    /\ cr_pc = "off" /\ cr_text = {} /\ cr_res = NoResult /\ cr_mask = {} /\ cr_status = NoStatus

CastlingTryFrom ==
    /\ cr_pc = "text"
    /\ cr_res' = CastlingRights_try_from(CHOOSE t \in cr_text : TRUE)
    /\ cr_mask' = cr_res'.val
    /\ cr_pc' = IF cr_res'.ok THEN "mask" ELSE "failed"
    /\ UNCHANGED <<cr_text, cr_status, sq_vars, co_vars, fen_vars>>

CastlingForColor ==
    /\ cr_pc = "mask"
    /\ cr_status' = [c \in Colors |-> for_color(CHOOSE m \in cr_mask : TRUE, c)]
    /\ cr_pc' = "queried"
    /\ UNCHANGED <<cr_text, cr_res, cr_mask, sq_vars, co_vars, fen_vars>>

----------------------------------------------------------------------------
(* bitboard.rs                                                             *)

EMPTY == {}

\* Bitboard::from_square: 1u64 << s.index()
Bitboard_from_square(s) == {index(s)}

----------------------------------------------------------------------------
(* board.rs                                                                *)

DEFAULT_BOARD_FEN ==
    <<"r","n","b","q","k","b","n","r","/","p","p","p","p","p","p","p","p","/","8","/","8","/","8","/","8","/","P","P","P","P","P","P","P","P","/","R","N","B","Q","K","B","N","R"," ","w"," ","K","Q","k","q"," ","-"," ","0"," ","1">>

Whitespace == {" ", "\t", "\n"}

\* str::split(' '): every single space ends a field, an empty one included.
RECURSIVE SplitSpaceFrom(_, _, _, _)
SplitSpaceFrom(s, i, cur, acc) ==
    IF i > Len(s) THEN Append(acc, cur)
    ELSE IF s[i] = " "
         THEN SplitSpaceFrom(s, i + 1, <<>>, Append(acc, cur))
         ELSE SplitSpaceFrom(s, i + 1, Append(cur, s[i]), acc)

split_space(s) == SplitSpaceFrom(s, 1, <<>>, <<>>)

\* str::split_whitespace: the maximal runs of non-whitespace characters.
RECURSIVE SplitFrom(_, _, _, _)
SplitFrom(s, i, cur, acc) ==
    IF i > Len(s) THEN (IF cur = <<>> THEN acc ELSE Append(acc, cur))
    ELSE IF s[i] \in Whitespace
         THEN SplitFrom(s, i + 1, <<>>, IF cur = <<>> THEN acc ELSE Append(acc, cur))
         ELSE SplitFrom(s, i + 1, Append(cur, s[i]), acc)

split_whitespace(s) == SplitFrom(s, 1, <<>>, <<>>)

\* The match arms of the placement loop: the plane, piece and color of a letter.
PieceLetters == <<"P","N","B","R","Q","K","p","n","b","r","q","k">>
PieceOrder == <<"Pawn","Knight","Bishop","Rook","Queen","King">>

IsPieceLetter(c) == \E i \in 1..12 : PieceLetters[i] = c

\* The match arms with the planes of the two colors exchanged.
PieceArm_swapped(c) ==
    LET i == CHOOSE j \in 1..12 : PieceLetters[j] = c
    IN  [bb_idx |-> (i + 5) % 12,
         piece |-> PieceOrder[((i - 1) % 6) + 1],
         color |-> IF i <= 6 THEN "White" ELSE "Black"]

PieceArm(c) ==
    LET i == CHOOSE j \in 1..12 : PieceLetters[j] = c
    IN  [bb_idx |-> i - 1,
         piece |-> PieceOrder[((i - 1) % 6) + 1],
         color |-> IF i <= 6 THEN "White" ELSE "Black"]

\* HashMap::insert
MapInsert(m, k, v) == [x \in (DOMAIN m) \cup {k} |-> IF x = k THEN v ELSE m[x]]

EmptyMap == [x \in {} |-> <<>>]

\* The error of the field-count check and of the placement loop.
InvalidFen(text) == Err("InvalidFen", text)

\* The placement loop: one iteration per character, from character i on, with
\* the cursors rank and file, the planes bbs and the map pcs.
\* The placement loop with an unknown character skipped instead of rejected.
RECURSIVE PlacementLoop_skip(_, _, _, _, _, _, _)
PlacementLoop_skip(s, i, rk, fl, bbs, pcs, text) ==
    IF i > Len(s) THEN Ok([bitboards |-> bbs, pieces |-> pcs])
    ELSE LET c == s[i]
             sq == Square_from_index(rk * 8 + fl)
         IN  IF c = "/" THEN PlacementLoop_skip(s, i + 1, rk + 1, 0, bbs, pcs, text)
             ELSE IF c \in {"1","2","3","4","5","6","7","8"}
                  THEN PlacementLoop_skip(s, i + 1, rk, fl + (CharCode(c) - 48), bbs, pcs, text)
             ELSE IF IsPieceLetter(c)
                  THEN LET arm == PieceArm(c)
                       IN  PlacementLoop_skip(s, i + 1, rk, fl + 1,
                               [bbs EXCEPT ![arm.bb_idx] = @ \cup Bitboard_from_square(sq)],
                               MapInsert(pcs, rk * 8 + fl, <<arm.piece, arm.color>>),
                               text)
             ELSE PlacementLoop_skip(s, i + 1, rk, fl, bbs, pcs, text)

\* The placement loop with the file cursor kept across a '/'.
RECURSIVE PlacementLoop_noreset(_, _, _, _, _, _, _)
PlacementLoop_noreset(s, i, rk, fl, bbs, pcs, text) ==
    IF i > Len(s) THEN Ok([bitboards |-> bbs, pieces |-> pcs])
    ELSE LET c == s[i]
             sq == Square_from_index(rk * 8 + fl)
         IN  IF c = "/" THEN PlacementLoop_noreset(s, i + 1, rk + 1, fl, bbs, pcs, text)
             ELSE IF c \in {"1","2","3","4","5","6","7","8"}
                  THEN PlacementLoop_noreset(s, i + 1, rk, fl + (CharCode(c) - 48), bbs, pcs, text)
             ELSE IF IsPieceLetter(c)
                  THEN LET arm == PieceArm(c)
                       IN  PlacementLoop_noreset(s, i + 1, rk, fl + 1,
                               [bbs EXCEPT ![arm.bb_idx] = @ \cup Bitboard_from_square(sq)],
                               MapInsert(pcs, rk * 8 + fl, <<arm.piece, arm.color>>),
                               text)
             ELSE InvalidFen(text)

RECURSIVE PlacementLoop(_, _, _, _, _, _, _)
PlacementLoop(s, i, rk, fl, bbs, pcs, text) ==
    IF i > Len(s) THEN Ok([bitboards |-> bbs, pieces |-> pcs])
    ELSE LET c == s[i]
             sq == Square_from_index(rk * 8 + fl)
         IN  IF c = "/" THEN PlacementLoop(s, i + 1, rk + 1, 0, bbs, pcs, text)
             ELSE IF c \in {"1","2","3","4","5","6","7","8"}
                  THEN PlacementLoop(s, i + 1, rk, fl + (CharCode(c) - 48), bbs, pcs, text)
             ELSE IF IsPieceLetter(c)
                  THEN LET arm == PieceArm(c)
                       IN  PlacementLoop(s, i + 1, rk, fl + 1,
                               [bbs EXCEPT ![arm.bb_idx] = @ \cup Bitboard_from_square(sq)],
                               MapInsert(pcs, rk * 8 + fl, <<arm.piece, arm.color>>),
                               text)
             ELSE InvalidFen(text)

\* str::parse::<usize>: an optional '+', then one or more decimal digits.  The
\* texts explored are far shorter than the 20 digits that overflow a usize.
RECURSIVE DigitsValue(_, _, _)
DigitsValue(s, i, acc) ==
    IF i > Len(s) THEN Ok(acc)
    ELSE IF ~IsDigit(s[i]) THEN Err("ParseIntError", <<>>)
    ELSE DigitsValue(s, i + 1, acc * 10 + DigitValue(s[i]))

usize_parse(s) ==
    IF Len(s) = 0 THEN Err("ParseIntError", <<>>)
    ELSE IF s[1] = "+"
         THEN (IF Len(s) = 1 THEN Err("ParseIntError", <<>>) ELSE DigitsValue(s, 2, 0))
         ELSE DigitsValue(s, 1, 0)

\* The en-passant match of try_from_fen.
EnPassant(s) ==
    IF s = <<"-">> THEN Ok({})
    ELSE LET r == Square_try_from(s)
         IN  IF r.ok THEN Ok(r.val) ELSE r

\* The clock fields read whenever six or more fields are present.
Clocks_atleast6(parts) ==
    IF Len(parts) >= 6
    THEN LET h == usize_parse(parts[5])
             f == usize_parse(parts[6])
         IN  IF ~h.ok THEN h
             ELSE IF ~f.ok THEN f
             ELSE Ok(<<Unwrap(h), Unwrap(f)>>)
    ELSE Ok(<<0, 0>>)

\* The clock fields read in the other order.
Clocks_swapped(parts) ==
    IF Len(parts) = 6
    THEN LET h == usize_parse(parts[6])
             f == usize_parse(parts[5])
         IN  IF ~h.ok THEN h
             ELSE IF ~f.ok THEN f
             ELSE Ok(<<Unwrap(h), Unwrap(f)>>)
    ELSE Ok(<<0, 0>>)

\* The clock fields of try_from_fen: (halfmove_clock, fullmove_number).
Clocks(parts) ==
    IF Len(parts) = 6
    THEN LET h == usize_parse(parts[5])
             f == usize_parse(parts[6])
         IN  IF ~h.ok THEN h
             ELSE IF ~f.ok THEN f
             ELSE Ok(<<Unwrap(h), Unwrap(f)>>)
    ELSE Ok(<<0, 0>>)

\* BoardBuilder::try_from_fen
try_from_fen(text) ==
    LET parts == split_whitespace(text)
    IN  IF Len(parts) < 4 THEN InvalidFen(text)
        ELSE LET placed == PlacementLoop(parts[1], 1, 0, 0,
                                         [i \in 0..(NUM_PIECES * NUM_COLORS - 1) |-> EMPTY],
                                         EmptyMap, text)
                 side == Color_try_from_str(parts[2])
                 rights == CastlingRights_try_from(parts[3])
                 ep == EnPassant(parts[4])
                 clk == Clocks(parts)
             IN  IF ~placed.ok THEN placed
                 ELSE IF ~side.ok THEN side
                 ELSE IF ~rights.ok THEN rights
                 ELSE IF ~ep.ok THEN ep
                 ELSE IF ~clk.ok THEN clk
                 ELSE Ok([bitboards |-> {Unwrap(placed).bitboards},
                          pieces |-> Unwrap(placed).pieces,
                          side_to_move |-> side.val,
                          castling_rights |-> rights.val,
                          en_passante_square |-> Unwrap(ep),
                          halfmove_clock |-> Unwrap(clk)[1],
                          fullmove_number |-> Unwrap(clk)[2]])

\* BoardBuilder::new
BoardBuilder_new ==
    [bitboards |-> {}, pieces |-> EmptyMap, side_to_move |-> {},
     castling_rights |-> {}, en_passante_square |-> {},
     halfmove_clock |-> 0, fullmove_number |-> 0]

\* try_build with an unset field replaced by its default instead of an error.
try_build_defaults(b) ==
    Ok([bitboards |-> IF b.bitboards = {}
                      THEN [i \in 0..(NUM_PIECES * NUM_COLORS - 1) |-> EMPTY]
                      ELSE CHOOSE x \in b.bitboards : TRUE,
        pieces |-> b.pieces,
        side_to_move |-> IF b.side_to_move = {} THEN "White"
                         ELSE CHOOSE x \in b.side_to_move : TRUE,
        castling_rights |-> IF b.castling_rights = {} THEN 0
                            ELSE CHOOSE x \in b.castling_rights : TRUE,
        en_passante_square |-> b.en_passante_square,
        halfmove_clock |-> b.halfmove_clock,
        fullmove_number |-> b.fullmove_number])

\* BoardBuilder::try_build
try_build(b) ==
    IF b.bitboards = {} THEN Err("BoardSetup", <<"B","i","t","b","o","a","r","d","s"," ","n","o","t"," ","i","n","i","t","i","a","l","i","z","e","d">>)
    ELSE IF b.side_to_move = {} THEN Err("BoardSetup", <<"S","i","d","e"," ","t","o"," ","m","o","v","e"," ","n","o","t"," ","i","n","i","t","i","a","l","i","z","e","d">>)
    ELSE IF b.castling_rights = {} THEN Err("BoardSetup", <<>>)
    ELSE Ok([bitboards |-> CHOOSE x \in b.bitboards : TRUE,
             pieces |-> b.pieces,
             side_to_move |-> CHOOSE x \in b.side_to_move : TRUE,
             castling_rights |-> CHOOSE x \in b.castling_rights : TRUE,
             en_passante_square |-> b.en_passante_square,
             halfmove_clock |-> b.halfmove_clock,
             fullmove_number |-> b.fullmove_number])

\* Board::empty
Board_empty ==
    [bitboards |-> [i \in 0..(NUM_PIECES * NUM_COLORS - 1) |-> EMPTY],
     pieces |-> EmptyMap,
     side_to_move |-> "White",
     castling_rights |-> NO_CASTLING_RIGHTS,
     en_passante_square |-> {},
     halfmove_clock |-> 0,
     fullmove_number |-> 0]

\* Board::new
Board_new == Board_empty

\* BoardBuilder::from_fen: unwrap, so a rejected text is a panic.
from_fen(text) ==
    LET r == try_from_fen(text)
    IN  IF r.ok THEN r ELSE Err("panic", r.text)

\* BoardBuilder::build: unwrap, so an unset field is a panic.
build(b) ==
    LET r == try_build(b)
    IN  IF r.ok THEN r ELSE Err("panic", r.text)

\* impl Default for Board
Board_default ==
    LET b == from_fen(DEFAULT_BOARD_FEN)
    IN  IF b.ok THEN build(Unwrap(b)) ELSE b

\* Board::standard
Board_standard == Board_default

\* impl fmt::Display for Board: one cell of the diagram.
Cell(b, k) ==
    IF k \in DOMAIN b.pieces
    THEN <<" ">> \o Piece_to_string(b.pieces[k][1], b.pieces[k][2]) \o <<" ">>
    ELSE <<" ", ".", " ">>

RECURSIVE Cells(_, _, _)
Cells(b, rk, field) ==
    IF field = 8 THEN <<>>
    ELSE Cell(b, rk * 8 + field) \o Cells(b, rk, field + 1)

RankLine(b, rk) ==
    <<" ">> \o ToDecimal(8 - rk) \o <<" ", "|">> \o Cells(b, rk, 0) \o <<"|", "\n">>

RECURSIVE RankLines(_, _)
RankLines(b, rk) ==
    IF rk = 8 THEN <<>> ELSE RankLine(b, rk) \o RankLines(b, rk + 1)

Border ==
    <<" "," "," ","+","-","-","-","-","-","-","-","-","-","-","-","-","-","-","-","-","-","-","-","-","-","-","-","-","+","\n">>

FileLegend ==
    <<" "," "," "," "," ","a"," "," ","b"," "," ","c"," "," ","d"," "," ","e"," "," ","f"," "," ","g"," "," ","h","\n">>

ToMove == <<"\n"," "," "," "," "," "," "," ","T","o"," ","m","o","v","e",":"," ">>

\* impl fmt::Display for Board
Board_to_string(b) ==
    <<"\n">> \o Border \o RankLines(b, 0) \o Border \o FileLegend
    \o ToMove \o Color_to_string(b.side_to_move)
    \o <<" ", " ", "(">> \o ToDecimal(b.halfmove_clock) \o <<",", " ">>
    \o ToDecimal(b.fullmove_number) \o <<")", "\n">>

----------------------------------------------------------------------------
(* The Color scenario: a text is read by Color::try_from_str.              *)

ColorChars == {"w", "W", "b", "B", "x", "-", "1"}
ColorInputs == SeqsUpTo(ColorChars, MaxColorTextLen)

ColorInit ==
    /\ co_pc = "text"
    /\ co_text \in ColorInputs
    /\ co_res = NoResult

ColorOff ==
    /\ co_pc = "off" /\ co_text = <<>> /\ co_res = NoResult

ColorTryFromStr ==
    /\ co_pc = "text"
    /\ co_res' = Color_try_from_str(co_text)
    /\ co_pc' = "parsed"
    /\ UNCHANGED <<co_text, sq_vars, cr_vars, fen_vars>>

----------------------------------------------------------------------------
(* The FEN scenario: a text is read by BoardBuilder::try_from_fen, the     *)
(* builder is made a Board by try_build (together: Board::try_from_fen),   *)
(* and the Board is written by Display.                                    *)

MaxFields == 7

DefaultPlacement == <<"r","n","b","q","k","b","n","r","/","p","p","p","p","p","p","p","p","/","8","/","8","/","8","/","8","/","P","P","P","P","P","P","P","P","/","R","N","B","Q","K","B","N","R">>
MainPlacement == <<"r","1","b","q","k","2","r","/","p","p","p","2","p","p","p","/","2","n","2","n","2","/","2","b","p","P","3","/","2","B","p","4","/","5","N","2","/","P","P","P","2","P","P","P","/","R","N","B","Q","K","R","2">>
EmptyPlacement == <<"8","/","8","/","8","/","8","/","8","/","8","/","8","/","8">>
\* Placements that leave the board: the file cursor passes 8, the rank cursor passes 8.
FileOverflowPlacement == <<"8","P","/","k">>
RankOverflowPlacement == <<"8","/","8","/","8","/","8","/","8","/","8","/","8","/","8","/","P">>

NamedPlacements ==
    {DefaultPlacement, MainPlacement, EmptyPlacement,
     FileOverflowPlacement, RankOverflowPlacement}

PlacementChars == {"P", "k", "8", "/", "X", "0"}
RandomPlacements == SeqsUpTo(PlacementChars, MaxPlacementLen) \ {<<>>}

RECURSIVE Join(_, _)
Join(fields, sep) ==
    IF Len(fields) = 0 THEN <<>>
    ELSE IF Len(fields) = 1 THEN fields[1]
    ELSE fields[1] \o sep \o Join(Tail(fields), sep)

\* One piece letter c on square k of an otherwise empty board.
OnePieceRank(k, c, r) ==
    IF r # k \div 8 THEN <<"8">>
    ELSE (IF k % 8 > 0 THEN <<DigitChars[(k % 8) + 1]>> ELSE <<>>)
         \o <<c>>
         \o (IF k % 8 < 7 THEN <<DigitChars[(7 - (k % 8)) + 1]>> ELSE <<>>)

OnePiece(k, c) == Join([r \in 1..8 |-> OnePieceRank(k, c, r - 1)], <<"/">>)

OnePiecePlacements ==
    {OnePiece(k, c) : k \in 0..63,
                      c \in {"P", "N", "B", "R", "Q", "K", "p", "n", "b", "r", "q", "k"}}

ColorTexts == {<<"w">>, <<"b">>, <<"W">>, <<"x">>}
RightsFieldTexts == {<<"K","Q","k","q">>, <<"Q","k","q">>, <<"-">>, <<"K","x">>}
EpTexts == {<<"-">>, <<"d","6">>, <<"e","4","x">>, <<"z","9">>}
HalfTexts == {<<"0">>, <<"1","2">>, <<"x">>}
FullTexts == {<<"1">>, <<"7">>, <<"+", "3">>, <<"y">>}
ExtraTexts == {<<"j","u","n","k">>}

FieldChoice(k) ==
    CASE k = 1 -> NamedPlacements
      [] k = 2 -> ColorTexts
      [] k = 3 -> RightsFieldTexts
      [] k = 4 -> EpTexts
      [] k = 5 -> HalfTexts
      [] k = 6 -> FullTexts
      [] OTHER -> ExtraTexts

\* The lists of n fields, field k drawn from FieldChoice(k).
RECURSIVE FieldLists(_)
FieldLists(n) ==
    IF n = 0 THEN {<<>>}
    ELSE {Append(l, x) : l \in FieldLists(n - 1), x \in FieldChoice(n)}

Space == <<" ">>

MainFen == Join(<<MainPlacement, <<"w">>, <<"Q","k","q">>, <<"d","6">>, <<"0">>, <<"7">>>>, Space)
EmptyBoardFen == Join(<<EmptyPlacement, <<"w">>, <<"-">>, <<"-">>, <<"0">>, <<"1">>>>, Space)
FileOverflowFen == Join(<<FileOverflowPlacement, <<"w">>, <<"K","Q","k","q">>, <<"-">>, <<"0">>, <<"1">>>>, Space)

DefaultFields == split_whitespace(DEFAULT_BOARD_FEN)

\* Texts whose whitespace is not one space between fields.
Pads == {<<>>, <<" ">>, <<"\t", "\n">>}
Seps == {<<" ">>, <<" ", " ">>, <<"\t">>}
PaddedTexts ==
    {lead \o Join(SubSeq(DefaultFields, 1, n), sep) \o trail :
        n \in 0..6, lead \in Pads, sep \in Seps, trail \in Pads}
    \cup {lead \o Join(<<bad>> \o SubSeq(DefaultFields, 2, 4), sep) \o trail :
             bad \in {<<"8", "X">>, <<"9">>}, lead \in Pads, sep \in Seps, trail \in Pads}

FenTexts ==
    UNION {{Join(l, Space) : l \in FieldLists(n)} : n \in 0..MaxFields}
    \cup {Join(<<p>> \o SubSeq(DefaultFields, 2, 6), Space) : p \in RandomPlacements}
    \cup {Join(<<p>> \o SubSeq(DefaultFields, 2, 4), Space) : p \in RandomPlacements}
    \cup {Join(<<p>> \o SubSeq(DefaultFields, 2, 6), Space) : p \in OnePiecePlacements}
    \cup PaddedTexts

Vias == {"builder_new", "default", "standard", "new", "empty"}

FenInit ==
    /\ \/ /\ fen_pc = "text"
          /\ via = "fen"
          /\ fen \in FenTexts
       \/ /\ fen_pc = "start"
          /\ via \in Vias
          /\ fen = <<>>
    /\ builder = NoResult
    /\ board = NoResult
    /\ shown = <<>>

FenOff ==
    /\ fen_pc = "off" /\ via = "off" /\ fen = <<>> /\ builder = NoResult /\ board = NoResult /\ shown = <<>>

TryFromFen ==
    /\ fen_pc = "text"
    /\ builder' = try_from_fen(fen)
    /\ fen_pc' = IF builder'.ok THEN "parsed" ELSE "rejected"
    /\ UNCHANGED <<fen, board, shown, via, sq_vars, cr_vars, co_vars>>

TryBuild ==
    /\ fen_pc = "parsed"
    /\ board' = try_build(Unwrap(builder))
    /\ fen_pc' = IF board'.ok THEN "built" ELSE "unbuilt"
    /\ UNCHANGED <<fen, builder, shown, via, sq_vars, cr_vars, co_vars>>

\* BoardBuilder::new()
BuilderNew ==
    /\ fen_pc = "start" /\ via = "builder_new"
    /\ builder' = Ok(BoardBuilder_new)
    /\ fen_pc' = "parsed"
    /\ UNCHANGED <<fen, board, shown, via, sq_vars, cr_vars, co_vars>>

\* Board::default()
BoardDefault ==
    /\ fen_pc = "start" /\ via = "default"
    /\ board' = Board_default
    /\ fen_pc' = IF board'.ok THEN "built" ELSE "aborted"
    /\ UNCHANGED <<fen, builder, shown, via, sq_vars, cr_vars, co_vars>>

\* Board::standard()
BoardStandard ==
    /\ fen_pc = "start" /\ via = "standard"
    /\ board' = Board_standard
    /\ fen_pc' = IF board'.ok THEN "built" ELSE "aborted"
    /\ UNCHANGED <<fen, builder, shown, via, sq_vars, cr_vars, co_vars>>

\* Board::new()
BoardNew ==
    /\ fen_pc = "start" /\ via = "new"
    /\ board' = Ok(Board_new)
    /\ fen_pc' = "built"
    /\ UNCHANGED <<fen, builder, shown, via, sq_vars, cr_vars, co_vars>>

\* Board::empty()
BoardEmpty ==
    /\ fen_pc = "start" /\ via = "empty"
    /\ board' = Ok(Board_empty)
    /\ fen_pc' = "built"
    /\ UNCHANGED <<fen, builder, shown, via, sq_vars, cr_vars, co_vars>>

Display ==
    /\ fen_pc = "built"
    /\ shown' = Board_to_string(Unwrap(board))
    /\ fen_pc' = "shown"
    /\ UNCHANGED <<fen, builder, board, via, sq_vars, cr_vars, co_vars>>

----------------------------------------------------------------------------
(* Specifications.                                                         *)

Init == FenInit /\ SquareOff /\ CastlingOff /\ ColorOff
Next ==
    \/ TryFromFen
    \/ TryBuild
    \/ Display
    \/ BuilderNew
    \/ BoardDefault
    \/ BoardStandard
    \/ BoardNew
    \/ BoardEmpty
Spec == Init /\ [][Next]_vars

InitColor == ColorInit /\ SquareOff /\ CastlingOff /\ FenOff
NextColor == ColorTryFromStr
SpecColor == InitColor /\ [][NextColor]_vars

InitSquare == SquareInit /\ CastlingOff /\ FenOff /\ ColorOff
NextSquare == SquareNew \/ SquareToString \/ SquareTryFrom
SpecSquare == InitSquare /\ [][NextSquare]_vars

InitCastling == CastlingInit /\ SquareOff /\ FenOff /\ ColorOff
NextCastling == CastlingTryFrom \/ CastlingForColor
SpecCastling == InitCastling /\ [][NextCastling]_vars

----------------------------------------------------------------------------
(* Reference notions the claims are stated with.                           *)

FileLetterCol(c) ==
    IF \E i \in 1..8 : LowerLetters[i] = c
    THEN (CHOOSE i \in 1..8 : LowerLetters[i] = c) - 1
    ELSE (CHOOSE i \in 1..8 : UpperLetters[i] = c) - 1

IsFileLetter(c) == \E i \in 1..8 : LowerLetters[i] = c \/ UpperLetters[i] = c
IsRankDigit(c) == \E d \in 1..8 : DigitChars[d + 1] = c

WellFormedSquareText(t) == Len(t) = 2 /\ IsFileLetter(t[1]) /\ IsRankDigit(t[2])

Has(t, c) == \E i \in 1..Len(t) : t[i] = c

StatusOf(kingside, queenside) ==
    CASE kingside /\ queenside -> "Both"
      [] kingside /\ ~queenside -> "Kingside"
      [] ~kingside /\ queenside -> "Queenside"
      [] OTHER -> "NotAvailable"

StatusOfField(v) == <<"NotAvailable", "Queenside", "Kingside", "Both">>[v + 1]

RightsLetters == {"K", "Q", "k", "q"}

MaskOfLetters(t) ==
    (IF Has(t, "K") THEN 8 ELSE 0) + (IF Has(t, "Q") THEN 4 ELSE 0)
    + (IF Has(t, "k") THEN 2 ELSE 0) + (IF Has(t, "q") THEN 1 ELSE 0)

----------------------------------------------------------------------------
(* Claims about Square.                                                    *)

\* C5: coordinate round-trip.  For every square index s in 0..63 the text
\* written by Display is the file letter followed by the human rank digit
\* (index 0 is written "a8", index 63 "h1"), and Square::try_from of that text
\* succeeds and gives the square s back.
C5_RoundTrip ==
    \A s \in sq_square :
        /\ sq_pc \in {"text", "parsed"} =>
              /\ sq_text = <<LowerLetters[(s % 8) + 1], DigitChars[(8 - (s \div 8)) + 1]>>
              /\ (s = 0 => sq_text = <<"a", "8">>)
              /\ (s = 63 => sq_text = <<"h", "1">>)
        /\ sq_pc = "parsed" => (sq_res.ok /\ sq_res.val = {s})

C5_Witness ==
    sq_pc = "parsed" /\ sq_square = {63} /\ sq_text = <<"h", "1">> /\ sq_res.val = {63}

\* C6: for every file letter with column c (either case) and every rank digit
\* d in 1..8, Square::try_from of the two characters gives index (8 - d) * 8 + c,
\* and on that square file().0 = file_as_u8() = c and rank().0 = rank_as_u8() = d - 1.
C6_IndexFormula ==
    (sq_pc = "parsed" /\ WellFormedSquareText(sq_text)) =>
        LET c == FileLetterCol(sq_text[1])
            d == DigitValue(sq_text[2])
        IN  /\ sq_res.ok
            /\ sq_res.val = {(8 - d) * 8 + c}
            /\ \A q \in sq_res.val :
                  /\ file(q) = c /\ file_as_u8(q) = c
                  /\ rank(q) = d - 1 /\ rank_as_u8(q) = d - 1
            /\ (sq_text = <<"a", "8">> => sq_res.val = {0})
            /\ (sq_text = <<"h", "1">> => sq_res.val = {63})

C6_Witness ==
    sq_pc = "parsed" /\ sq_square = {} /\ sq_text = <<"D", "7">> /\ sq_res.val = {11}

\* C7: Square::try_from succeeds if and only if the text is exactly two
\* characters, a file letter a-h (either case) followed by a rank digit 1-8;
\* every other text is rejected with UnknownSquare.
C7_ExactlyTwoChars ==
    sq_pc = "parsed" =>
        /\ sq_res.ok <=> WellFormedSquareText(sq_text)
        /\ ~sq_res.ok => sq_res.err = "UnknownSquare"

----------------------------------------------------------------------------
(* Claims about CastlingRights.                                            *)

\* C8: for_color never fails, for any u8 mask; it maps the color's 2-bit
\* sub-field (White bits 3-2, Black bits 1-0) as 0 NotAvailable, 1 Queenside,
\* 2 Kingside, 3 Both; and for a mask read from a string of K, Q, k, q the
\* status of White depends only on the presence of 'K' and 'Q', that of Black
\* only on the presence of 'k' and 'q'.
C8_ForColor ==
    cr_pc = "queried" =>
        /\ \A c \in Colors : cr_status[c].ok
        /\ \A m \in cr_mask :
              /\ cr_status["White"].val = {StatusOfField((m \div 4) % 4)}
              /\ cr_status["Black"].val = {StatusOfField(m % 4)}
        /\ \A t \in cr_text :
              /\ cr_status["White"].val = {StatusOf(Has(t, "K"), Has(t, "Q"))}
              /\ cr_status["Black"].val = {StatusOf(Has(t, "k"), Has(t, "q"))}

C8_Witness ==
    /\ cr_pc = "queried"
    /\ cr_text = {<<"q", "Q">>}
    /\ cr_status["White"].val = {"Queenside"}
    /\ cr_status["Black"].val = {"Queenside"}

\* C9: for a rights string other than "-", CastlingRights::try_from succeeds
\* exactly when every character is one of K, Q, k, q, and then the mask is the
\* bitwise OR of K=8, Q=4, k=2, q=1 over the characters present; otherwise it
\* fails with InvalidFen carrying the whole string and gives no mask.
C9_TryFrom ==
    \A t \in cr_text :
        (cr_pc # "text" /\ t # <<"-">>) =>
            /\ cr_res.ok <=> (\A i \in 1..Len(t) : t[i] \in RightsLetters)
            /\ cr_res.ok => cr_res.val = {MaskOfLetters(t)}
            /\ ~cr_res.ok =>
                  (cr_res.err = "InvalidFen" /\ cr_res.text = t /\ cr_res.val = {}
                   /\ cr_mask = {} /\ cr_pc = "failed")
            /\ (t = <<>> => cr_res.val = {0})
            /\ (t = <<"Q", "k">> => cr_res.val = {6})
            /\ (t = <<"K", "q">> => cr_res.val = {9})

C9_Witness ==
    cr_pc = "mask" /\ cr_text = {<<"K", "q", "K">>} /\ cr_res.val = {9}

----------------------------------------------------------------------------
(* Claims about the FEN codec.                                             *)

Fields == split_whitespace(fen)

\* The number of whitespace-separated fields of a text: its field starts.
FieldCount(t) ==
    Cardinality({i \in 1..Len(t) :
                    t[i] \notin Whitespace /\ (i = 1 \/ t[i - 1] \in Whitespace)})

PlaneIndexes == 0..11

RECURSIVE BitTotal(_, _)
BitTotal(bbs, i) == IF i > 11 THEN 0 ELSE Cardinality(bbs[i]) + BitTotal(bbs, i + 1)

PlanesWith(bbs, k) == {i \in PlaneIndexes : k \in bbs[i]}

AllBits(bbs) == UNION {bbs[i] : i \in PlaneIndexes}

RECURSIVE Pow10(_)
Pow10(n) == IF n = 0 THEN 1 ELSE 10 * Pow10(n - 1)

RECURSIVE PlaceValueSum(_, _)
PlaceValueSum(t, i) ==
    IF i > Len(t) THEN 0
    ELSE DigitValue(t[i]) * Pow10(Len(t) - i) + PlaceValueSum(t, i + 1)

DecimalValue(t) == IF t[1] = "+" THEN PlaceValueSum(Tail(t), 1) ELSE PlaceValueSum(t, 1)

\* C1: after any successful try_from_fen the number of set bits across the 12
\* planes equals the number of map entries, no bit is set in two planes, and a
\* square index is a key of the map iff exactly one plane has that bit set.
C1_PlanesMatchMap ==
    (via = "fen" /\ fen_pc # "text" /\ builder.ok) =>
        \A bbs \in Unwrap(builder).bitboards :
            LET pcs == Unwrap(builder).pieces
            IN  /\ BitTotal(bbs, 0) = Cardinality(DOMAIN pcs)
                /\ \A i, j \in PlaneIndexes : i # j => bbs[i] \cap bbs[j] = {}
                /\ \A k \in AllBits(bbs) \cup DOMAIN pcs :
                      k \in DOMAIN pcs <=> Cardinality(PlanesWith(bbs, k)) = 1

\* C2: a FEN whose castling field is "-" is accepted with the zero castling
\* mask: the castling field is never the reason of a rejection, and
\* "8/8/8/8/8/8/8/8 w - - 0 1" gives 12 empty planes and an empty map.
C2_DashRights ==
    (via = "fen" /\ fen_pc # "text" /\ Len(Fields) >= 4 /\ Fields[3] = <<"-">>) =>
        /\ ~(builder.err = "InvalidFen" /\ builder.text = <<"-">>)
        /\ builder.ok => Unwrap(builder).castling_rights = {0}
        /\ fen = EmptyBoardFen =>
              /\ builder.ok
              /\ \A bbs \in Unwrap(builder).bitboards : \A i \in PlaneIndexes : bbs[i] = {}
              /\ DOMAIN Unwrap(builder).pieces = {}

\* C3 as stated: Display of a parsed Board reproduces the FEN text, for every
\* canonical 6-field FEN that parses.
CanonicalFens ==
    {Join(<<p, c, r, e, h, f>>, Space) :
        p \in {DefaultPlacement, MainPlacement, EmptyPlacement},
        c \in {<<"w">>, <<"b">>},
        r \in {<<"K","Q","k","q">>, <<"Q","k","q">>, <<"-">>},
        e \in {<<"-">>, <<"d","6">>},
        h \in {<<"0">>, <<"1","2">>},
        f \in {<<"1">>, <<"7">>}}

C3_DisplayIsFen ==
    (fen_pc = "shown" /\ fen \in CanonicalFens) => shown = fen

\* The letter Display writes for square k: the piece letter by case per color,
\* or '.' for an empty square.
LetterAt(b, k) ==
    IF k \in DOMAIN b.pieces
    THEN PieceLetters[Color_as_index(b.pieces[k][2]) * 6 + Piece_as_index(b.pieces[k][1]) + 1]
    ELSE "."

\* C3 amended: Display of a parsed Board never reproduces the FEN text.  It
\* writes a diagram: a blank line and a border, then for each rank row r = 0..7
\* a 30-character line with the label 8 - r and, for each file f = 0..7, the
\* case-per-color piece letter of map entry r * 8 + f or '.', then a border,
\* the file legend, and a last line with the side to move as W or B and
\* "(halfmove, fullmove)".  No '/' separator and no run-length digit is written,
\* and neither are the castling and en-passant fields.
C3_DisplayIsDiagram ==
    fen_pc = "shown" =>
        LET b == Unwrap(board)
            h == ToDecimal(b.halfmove_clock)
            f == ToDecimal(b.fullmove_number)
        IN  /\ shown # fen
            /\ Len(shown) = 354 + Len(h) + Len(f)
            /\ \A r \in 0..7 :
                  /\ shown[31 + 30 * r + 2] = DigitChars[(8 - r) + 1]
                  /\ \A c \in 0..7 : shown[31 + 30 * r + 6 + 3 * c] = LetterAt(b, r * 8 + c)
            /\ shown[347] = (IF b.side_to_move = "White" THEN "W" ELSE "B")
            /\ SubSeq(shown, 348, Len(shown)) = <<" ", " ", "(">> \o h \o <<",", " ">> \o f \o <<")", "\n">>
            /\ \A i \in 1..Len(shown) : shown[i] # "/"

C3_Witness ==
    fen_pc = "shown" /\ fen = DEFAULT_BOARD_FEN /\ shown[37] = "r" /\ shown[247] = "R"

\* C4: for every FEN with exactly 6 fields that parses, the Board's scalars are
\* the parsed fields: side_to_move the Color of field 1, castling_rights the
\* mask of field 2, en_passante_square None iff field 3 is "-" and otherwise
\* the Square named by field 3, the clocks the decimal values of fields 4 and 5.
C4_Scalars ==
    (via = "fen" /\ fen_pc \in {"built", "shown"} /\ Len(Fields) = 6) =>
        LET b == Unwrap(board)
            ep == Fields[4]
        IN  /\ b.side_to_move = (IF Fields[2][1] \in {"w", "W"} THEN "White" ELSE "Black")
            /\ Fields[2][1] \in {"w", "W", "b", "B"}
            /\ b.castling_rights = MaskOfLetters(Fields[3])
            /\ b.en_passante_square = {} <=> ep = <<"-">>
            /\ ep # <<"-">> =>
                  b.en_passante_square = {(8 - DigitValue(ep[2])) * 8 + FileLetterCol(ep[1])}
            /\ b.halfmove_clock = DecimalValue(Fields[5])
            /\ b.fullmove_number = DecimalValue(Fields[6])
            /\ fen = MainFen =>
                  /\ b.side_to_move = "White"
                  /\ for_color(b.castling_rights, "White") = Ok("Queenside")
                  /\ for_color(b.castling_rights, "Black") = Ok("Both")
                  /\ b.en_passante_square = {19}
                  /\ b.halfmove_clock = 0
                  /\ b.fullmove_number = 7

C4_Witness ==
    /\ fen_pc = "built"
    /\ fen = MainFen
    /\ Unwrap(board).en_passante_square = {19}
    /\ Unwrap(board).fullmove_number = 7

\* C10: try_from_fen on any text with fewer than 4 whitespace-separated fields
\* (the empty and the whitespace-only text included) fails with InvalidFen
\* carrying the entire original text.
C10_TooFewFields ==
    (via = "fen" /\ fen_pc # "text" /\ FieldCount(fen) < 4) =>
        /\ ~builder.ok
        /\ builder.err = "InvalidFen"
        /\ builder.text = fen
        /\ builder.val = {}
        /\ fen_pc = "rejected"

C10_Witness ==
    /\ fen_pc = "rejected"
    /\ fen = <<" ">> \o Join(SubSeq(DefaultFields, 1, 3), <<" ", " ">>) \o <<"\t", "\n">>
    /\ builder.text = fen

----------------------------------------------------------------------------
(* Claims about Color and Square::new.                                     *)

\* C12: Color::try_from_str depends only on the first character of its input:
\* 'w' or 'W' gives White, 'b' or 'B' gives Black whatever follows; the empty
\* string and any other first character fail with UnknownColor carrying the
\* whole input.
C12_FirstCharOnly ==
    co_pc = "parsed" =>
        IF co_text # <<>> /\ co_text[1] \in {"w", "W"} THEN co_res = Ok("White")
        ELSE IF co_text # <<>> /\ co_text[1] \in {"b", "B"} THEN co_res = Ok("Black")
        ELSE /\ ~co_res.ok
             /\ co_res.err = "UnknownColor"
             /\ co_res.text = co_text
             /\ co_res.val = {}

C12_Witness ==
    co_pc = "parsed" /\ co_text = <<"B", "x", "w">> /\ co_res.val = {"Black"}

\* C15: Square::new(b) for any u8 b greater than 63 yields the square with
\* index 63 (h1); for b in 0..63 it yields index b.
C15_NewSaturates ==
    \A b \in sq_byte :
        sq_pc # "byte" => sq_square = {IF b > 63 THEN 63 ELSE b}

----------------------------------------------------------------------------
(* Claims about the fields of a FEN and the constructors of Board.         *)

PlacementAlphabet ==
    {"/", "1", "2", "3", "4", "5", "6", "7", "8",
     "P", "N", "B", "R", "Q", "K", "p", "n", "b", "r", "q", "k"}

\* C11: for any text with at least 4 fields, if the placement field holds a
\* character that is not '/', a digit 1-8 or one of the 12 piece letters,
\* try_from_fen fails with InvalidFen carrying the full original text and
\* produces no builder.
C11_BadPlacementChar ==
    (via = "fen" /\ fen_pc \in {"parsed", "rejected"} /\ FieldCount(fen) >= 4
     /\ \E i \in 1..Len(Fields[1]) : Fields[1][i] \notin PlacementAlphabet) =>
        /\ ~builder.ok
        /\ builder.err = "InvalidFen"
        /\ builder.text = fen
        /\ builder.val = {}
        /\ fen_pc = "rejected"

C11_Witness ==
    /\ fen_pc = "rejected"
    /\ fen = <<"\t", "\n">> \o Join(<<<<"8", "X">>>> \o SubSeq(DefaultFields, 2, 4), <<" ", " ">>)
    /\ builder.err = "InvalidFen"
    /\ builder.text = fen

\* What str::parse::<usize> takes for a number: an optional '+', then digits.
IsNumeric(t) ==
    LET d == IF t # <<>> /\ t[1] = "+" THEN Tail(t) ELSE t
    IN  d # <<>> /\ \A i \in 1..Len(d) : IsDigit(d[i])

\* C13: clock fields by field count.  With exactly 4 fields both clocks are 0;
\* with exactly 6 they are the decimal values of fields 4 and 5 and a
\* non-numeric value in either makes the parse fail; with any other count of
\* at least 4 the parse behaves exactly as on the first 4 fields: both clocks
\* are 0 and the extra fields never cause an error.
C13_Clocks ==
    (via = "fen" /\ fen_pc \in {"parsed", "rejected"} /\ Len(Fields) >= 4) =>
        LET four == try_from_fen(Join(SubSeq(Fields, 1, 4), Space))
            n == Len(Fields)
        IN  /\ n = 4 =>
                  (builder.ok => /\ Unwrap(builder).halfmove_clock = 0
                                 /\ Unwrap(builder).fullmove_number = 0)
            /\ n = 6 =>
                  /\ builder.ok <=> (four.ok /\ IsNumeric(Fields[5]) /\ IsNumeric(Fields[6]))
                  /\ builder.ok =>
                        /\ Unwrap(builder).halfmove_clock = DecimalValue(Fields[5])
                        /\ Unwrap(builder).fullmove_number = DecimalValue(Fields[6])
                  /\ (four.ok /\ ~builder.ok) => builder.err = "ParseIntError"
            /\ n \notin {4, 6} =>
                  /\ builder.ok <=> four.ok
                  /\ builder.ok =>
                        /\ builder = four
                        /\ Unwrap(builder).halfmove_clock = 0
                        /\ Unwrap(builder).fullmove_number = 0
                  /\ ~builder.ok => builder.err = four.err

C13_Witness ==
    /\ fen_pc = "parsed"
    /\ Len(Fields) = 7
    /\ Fields[5] = <<"x">>
    /\ Unwrap(builder).halfmove_clock = 0
    /\ Unwrap(builder).fullmove_number = 0

\* C14: try_build fails with BoardSetup if and only if a required field
\* (bitboards, side_to_move, castling_rights) is unset, so
\* BoardBuilder::new().try_build() fails; every builder of a successful
\* try_from_fen has all three set, so its try_build succeeds and the Board
\* carries the builder's planes, map, side, rights, en-passant square and
\* clocks unchanged.
C14_TryBuild ==
    (via \in {"fen", "builder_new"} /\ fen_pc \in {"parsed", "built", "unbuilt", "shown"}) =>
        LET b == Unwrap(builder)
            unset == b.bitboards = {} \/ b.side_to_move = {} \/ b.castling_rights = {}
        IN  /\ via = "fen" => ~unset
            /\ via = "builder_new" => unset
            /\ fen_pc # "parsed" =>
                  /\ ~board.ok <=> unset
                  /\ ~board.ok => (board.err = "BoardSetup" /\ fen_pc = "unbuilt")
                  /\ board.ok =>
                        LET d == Unwrap(board)
                        IN  /\ b.bitboards = {d.bitboards}
                            /\ b.pieces = d.pieces
                            /\ b.side_to_move = {d.side_to_move}
                            /\ b.castling_rights = {d.castling_rights}
                            /\ b.en_passante_square = d.en_passante_square
                            /\ b.halfmove_clock = d.halfmove_clock
                            /\ b.fullmove_number = d.fullmove_number

C14_Witness ==
    via = "builder_new" /\ fen_pc = "unbuilt" /\ board.err = "BoardSetup"

\* The plane of a (piece, color) pair.
PlaneOf(pc) == Color_as_index(pc[2]) * 6 + Piece_as_index(pc[1])

\* C16: Board::default() and Board::standard() never abort and yield the
\* standard starting position: 32 map entries, the black back rank on 0-7 and
\* black pawns on 8-15 (planes 6-11), white pawns on 48-55 and the white back
\* rank on 56-63 (planes 0-5), White to move, castling mask 15, no en-passant
\* square, halfmove_clock 0, fullmove_number 1.  Board::new() and
\* Board::empty() yield 12 empty planes, an empty map, White to move, the zero
\* castling mask, no en-passant square and both clocks 0.
C16_Constructors ==
    (via \in {"default", "standard", "new", "empty"} /\ fen_pc # "start") =>
        /\ board.ok
        /\ fen_pc # "aborted"
        /\ LET b == Unwrap(board)
           IN  /\ b.side_to_move = "White"
               /\ b.en_passante_square = {}
               /\ b.halfmove_clock = 0
               /\ \A k \in DOMAIN b.pieces : k \in b.bitboards[PlaneOf(b.pieces[k])]
               /\ via \in {"default", "standard"} =>
                     /\ Cardinality(DOMAIN b.pieces) = 32
                     /\ DOMAIN b.pieces = (0..15) \cup (48..63)
                     /\ b.bitboards[0] = 48..55
                     /\ b.bitboards[1] = {57, 62}
                     /\ b.bitboards[2] = {58, 61}
                     /\ b.bitboards[3] = {56, 63}
                     /\ b.bitboards[4] = {59}
                     /\ b.bitboards[5] = {60}
                     /\ b.bitboards[6] = 8..15
                     /\ b.bitboards[7] = {1, 6}
                     /\ b.bitboards[8] = {2, 5}
                     /\ b.bitboards[9] = {0, 7}
                     /\ b.bitboards[10] = {3}
                     /\ b.bitboards[11] = {4}
                     /\ b.castling_rights = 15
                     /\ for_color(b.castling_rights, "White") = Ok("Both")
                     /\ for_color(b.castling_rights, "Black") = Ok("Both")
                     /\ b.fullmove_number = 1
               /\ via \in {"new", "empty"} =>
                     /\ \A i \in PlaneIndexes : b.bitboards[i] = {}
                     /\ DOMAIN b.pieces = {}
                     /\ b.castling_rights = 0
                     /\ b.fullmove_number = 0

C16_Witness ==
    /\ via = "standard"
    /\ fen_pc = "built"
    /\ Cardinality(DOMAIN Unwrap(board).pieces) = 32
    /\ Unwrap(board).castling_rights = 15

----------------------------------------------------------------------------
(* Claims about the placement walk and the order of the errors.            *)

\* The files a placement character covers.
Width(c) == IF IsRankDigit(c) THEN DigitValue(c) ELSE 1

\* The rank row and the file of character i of a placement, counted from the
\* text: the '/' before it, and the files covered since the last '/'.
RefRow(p, i) == Cardinality({j \in 1..(i - 1) : p[j] = "/"})

RECURSIVE RefFile(_, _)
RefFile(p, i) ==
    IF i = 1 \/ p[i - 1] = "/" THEN 0
    ELSE RefFile(p, i - 1) + Width(p[i - 1])

\* 8 rank groups, 7 '/', each group covering exactly 8 files.
WellFormedPlacement(p) ==
    /\ p # <<>>
    /\ \A i \in 1..Len(p) : p[i] \in PlacementAlphabet
    /\ Cardinality({i \in 1..Len(p) : p[i] = "/"}) = 7
    /\ \A i \in 1..Len(p) : p[i] = "/" => RefFile(p, i) = 8
    /\ p[Len(p)] # "/"
    /\ RefFile(p, Len(p)) + Width(p[Len(p)]) = 8

LetterPositions(p) == {i \in 1..Len(p) : p[i] \in PlacementAlphabet /\ p[i] # "/" /\ ~IsRankDigit(p[i])}

RefKey(p, i) == RefRow(p, i) * 8 + RefFile(p, i)

RefPiece(c) ==
    CASE c \in {"P", "p"} -> "Pawn"
      [] c \in {"N", "n"} -> "Knight"
      [] c \in {"B", "b"} -> "Bishop"
      [] c \in {"R", "r"} -> "Rook"
      [] c \in {"Q", "q"} -> "Queen"
      [] c \in {"K", "k"} -> "King"

RefColor(c) == IF c \in {"P", "N", "B", "R", "Q", "K"} THEN "White" ELSE "Black"

\* The validity of each field as the FEN format defines it.
ColorValid(t) == t # <<>> /\ t[1] \in {"w", "W", "b", "B"}
RightsValid(t) == t = <<"-">> \/ \A i \in 1..Len(t) : t[i] \in RightsLetters
EnPassantValid(t) == t = <<"-">> \/ WellFormedSquareText(t)

\* The error of the leftmost invalid field, "" when every field is valid.
LeftmostError(f) ==
    IF Len(f) < 4 THEN "InvalidFen"
    ELSE IF ~WellFormedPlacement(f[1]) THEN "InvalidFen"
    ELSE IF ~ColorValid(f[2]) THEN "UnknownColor"
    ELSE IF ~RightsValid(f[3]) THEN "InvalidFen"
    ELSE IF ~EnPassantValid(f[4]) THEN "UnknownSquare"
    ELSE IF Len(f) = 6 /\ ~IsNumeric(f[5]) THEN "ParseIntError"
    ELSE IF Len(f) = 6 /\ ~IsNumeric(f[6]) THEN "ParseIntError"
    ELSE ""

\* C17: try_from_fen returns the error of the first invalid field in textual
\* order: the field count, then placement (InvalidFen with the whole text),
\* active color (UnknownColor), castling (InvalidFen with the castling
\* string), en-passant (UnknownSquare), halfmove, fullmove (integer parse
\* error); a text with no invalid field is accepted.
C17_LeftmostError ==
    (via = "fen" /\ fen_pc \in {"parsed", "rejected"}) =>
        /\ builder.err = LeftmostError(Fields)
        /\ builder.ok <=> LeftmostError(Fields) = ""

\* The same order with a field taken as invalid exactly when its own parser
\* rejects it: any placement of placement characters, only the letters K, Q,
\* k, q as rights, and a square text of two or more characters.
ErrorAsParsed(f) ==
    IF Len(f) < 4 THEN "InvalidFen"
    ELSE IF \E i \in 1..Len(f[1]) : f[1][i] \notin PlacementAlphabet THEN "InvalidFen"
    ELSE IF ~ColorValid(f[2]) THEN "UnknownColor"
    ELSE IF \E i \in 1..Len(f[3]) : f[3][i] \notin RightsLetters THEN "InvalidFen"
    ELSE IF f[4] # <<"-">> /\ ~(Len(f[4]) >= 2 /\ WellFormedSquareText(SubSeq(f[4], 1, 2)))
         THEN "UnknownSquare"
    ELSE IF Len(f) = 6 /\ ~IsNumeric(f[5]) THEN "ParseIntError"
    ELSE IF Len(f) = 6 /\ ~IsNumeric(f[6]) THEN "ParseIntError"
    ELSE ""

OrderAmongRejectedFields ==
    (via = "fen" /\ fen_pc \in {"parsed", "rejected"}) =>
        /\ builder.err = ErrorAsParsed(Fields)
        /\ builder.ok <=> ErrorAsParsed(Fields) = ""

\* C18: try_from_fen rejects with InvalidFen every placement field that is not
\* exactly 8 rank groups separated by exactly 7 '/' with each group covering
\* exactly 8 files.
C18_ShapeValidated ==
    (via = "fen" /\ fen_pc \in {"parsed", "rejected"} /\ Len(Fields) >= 4
     /\ ~WellFormedPlacement(Fields[1])) =>
        /\ ~builder.ok
        /\ builder.err = "InvalidFen"

\* C19: for every well-formed placement the cursor walk yields the reference
\* board: a piece letter read at rank row r and file f sets bit r * 8 + f in
\* plane color.as_index() * 6 + piece.as_index() and inserts
\* map[r * 8 + f] = (piece, color); no other bit or map entry is set, all map
\* keys lie in 0..63, and the map has as many entries as there are piece
\* letters.
C19_ReferenceBoard ==
    (via = "fen" /\ fen_pc = "parsed" /\ WellFormedPlacement(Fields[1])) =>
        LET p == Fields[1]
            L == LetterPositions(p)
            pcs == Unwrap(builder).pieces
            bbs == CHOOSE x \in Unwrap(builder).bitboards : TRUE
            plane(i) == Color_as_index(RefColor(p[i])) * 6 + Piece_as_index(RefPiece(p[i]))
        IN  /\ DOMAIN pcs = {RefKey(p, i) : i \in L}
            /\ \A i \in L : pcs[RefKey(p, i)] = <<RefPiece(p[i]), RefColor(p[i])>>
            /\ \A pl \in PlaneIndexes : bbs[pl] = {RefKey(p, i) : i \in {j \in L : plane(j) = pl}}
            /\ DOMAIN pcs \subseteq 0..63
            /\ Cardinality(DOMAIN pcs) = Cardinality(L)

C19_Witness ==
    /\ via = "fen"
    /\ fen_pc = "parsed"
    /\ Fields[1] = OnePiece(35, "q")
    /\ Unwrap(builder).pieces = (35 :> <<"Queen", "Black">>)

====
